---------------------------- MODULE Spec2Model ----------------------------
(***************************************************************************)
(* Multi-Platform Campaign Builder (src/app1.py).                          *)
(*                                                                         *)
(* The program is one Streamlit script.  Its state is the session state    *)
(* (current_step, campaign_data, prompts) together with the values of the  *)
(* input widgets the script binds into campaign_data.  Every user          *)
(* interaction runs main() from the top; a handler that ends in st.rerun() *)
(* runs it once more.  One action of the model is one interaction,         *)
(* followed through every script run it causes, up to the point where the  *)
(* page waits for the user again.                                          *)
(*                                                                         *)
(* Widgets follow Streamlit's widget lifecycle: a widget keeps its value   *)
(* from run to run as long as every run calls it; the state of a widget    *)
(* that a run did not call is discarded, and the widget starts again from  *)
(* its default value the next time it is called.                           *)
(***************************************************************************)
EXTENDS Integers, Sequences, FiniteSets, TLC

VARIABLES
    current_step,   \* st.session_state.current_step
    campaign_data,  \* st.session_state.campaign_data: a dict, key -> value
    prompts,        \* st.session_state.prompts: a list of prompt records
    widgets,        \* the values held by the input widgets of main()
    timeline_data,  \* the timeline table shown by the latest script run
    event,          \* the widget that triggered the latest script run
    edits           \* number of widget edits made so far (bounded)

vars == <<current_step, campaign_data, prompts, widgets, timeline_data, event, edits>>

----------------------------------------------------------------------------
(* Bounds of the model *)

\* The number of widget edits (typing, ticking, selecting) in one behaviour.
MaxEdits == 2

\* The longest selected_platforms and campaign_phases lists given to the
\* generators when they are exercised on their own.
MaxLen == 2

\* The texts a user types into a text widget.
Texts == {"", "EcoVibe"}

\* The options a user picks in a selectbox: the first and the last one.
Picked(options) == {options[1], options[Len(options)]}

\* The platform names given to the generators when exercised on their own.
SamplePlatforms == {"Instagram", "Email", "TikTok"}

----------------------------------------------------------------------------
(* Catalogs and option lists *)

PLATFORMS == <<"Instagram", "TikTok", "Email", "Twitter", "LinkedIn", "Facebook">>

CAMPAIGN_PHASES == <<"Awareness", "Consideration", "Conversion", "Retention">>

STEPS == <<"Campaign Foundation", "Platform Selection", "Content Strategy",
           "Prompt Generation", "Execution Plan">>

Foundation == 0
PlatformSelection == 1
ContentStrategy == 2
PromptGeneration == 3
FinalPlan == 4

DurationOptions == <<"2 weeks", "4 weeks", "6 weeks", "8 weeks">>

GoalOptions == <<"Brand Awareness", "Lead Generation", "Product Launch",
                 "Engagement", "Sales Conversion">>

BudgetOptions == <<"Bootstrapped", "Moderate", "Amplified", "Enterprise">>

----------------------------------------------------------------------------
(* Helpers: sequences, strings and dicts *)

Range(s) == {s[i] : i \in DOMAIN s}

Min(a, b) == IF a <= b THEN a ELSE b

Max(a, b) == IF a >= b THEN a ELSE b

\* sep.join(s)
RECURSIVE Join(_, _)
Join(s, sep) ==
    IF s = <<>> THEN ""
    ELSE IF Len(s) = 1 THEN s[1]
    ELSE s[1] \o sep \o Join(Tail(s), sep)

\* {}
EmptyDict == <<>>

\* d.get(k, default)
Get(d, k, default) == IF k \in DOMAIN d THEN d[k] ELSE default

\* d[k] = v
Put(d, k, v) == [x \in (DOMAIN d) \cup {k} |-> IF x = k THEN v ELSE d[x]]

\* s without its i-th element
RemoveAt(s, i) == [j \in 1..(Len(s) - 1) |-> IF j < i THEN s[j] ELSE s[j + 1]]

----------------------------------------------------------------------------
(* CampaignBuilder.generate_prompt_sequence *)

FoundationPrompt(product_name, target_audience, key_message, selected_platforms) ==
    [phase |-> "Foundation",
     platform |-> "All",
     prompt |-> "Act as a senior marketing strategist. Create a multi-platform campaign for:\n"
                \o "            \n"
                \o "Product: " \o product_name \o "\n"
                \o "Target Audience: " \o target_audience \o "\n"
                \o "Key Message: " \o key_message \o "\n"
                \o "Platforms: " \o Join(selected_platforms, ", ") \o "\n"
                \o "\n"
                \o "Propose a weekly strategy with specific goals for each platform."]

\* Variant: the prompt names the last selected phase.
FirstPhaseLast(campaign_phases) ==
    IF campaign_phases # <<>> THEN campaign_phases[Len(campaign_phases)] ELSE "Awareness"

\* campaign_phases[0] if campaign_phases else 'Awareness'
FirstPhase(campaign_phases) ==
    IF campaign_phases # <<>> THEN campaign_phases[1] ELSE "Awareness"

ContentPrompt(platform, campaign_phases, target_audience) ==
    [phase |-> "Content Creation",
     platform |-> platform,
     prompt |-> "For " \o platform \o ", generate 3-5 content ideas for the "
                \o FirstPhase(campaign_phases) \o " phase targeting "
                \o target_audience \o ". Focus on:\n"
                \o "- Platform-best practices for " \o platform \o "\n"
                \o "- Content format recommendations\n"
                \o "- Hashtag strategy\n"
                \o "- Engagement tactics"]

AssetPrompt(product_name) ==
    [phase |-> "Asset Development",
     platform |-> "All",
     prompt |-> "Create specific copy and content guidelines for:\n"
                \o "Product: " \o product_name \o "\n"
                \o "\n"
                \o "Include:\n"
                \o "- 5 email subject lines\n"
                \o "- 3 Instagram carousel concepts\n"
                \o "- 2 TikTok script outlines\n"
                \o "- Social media post templates"]

\* Variant: the default list holds one platform only.
DefaultSelectedPlatformsOne == <<"Instagram">>

DefaultSelectedPlatforms == <<"Instagram", "TikTok">>

DefaultCampaignPhases == <<"Awareness">>

\* Variant: the loop stops one platform early.
RECURSIVE ContentLoopDropLast(_, _, _, _)
ContentLoopDropLast(acc, platforms, campaign_phases, target_audience) ==
    IF Len(platforms) <= 1 THEN acc
    ELSE ContentLoopDropLast(Append(acc, ContentPrompt(Head(platforms), campaign_phases,
                                                       target_audience)),
                             Tail(platforms), campaign_phases, target_audience)

\* Variant: the loop runs over the platforms from the last to the first.
RECURSIVE ContentLoopReversed(_, _, _, _)
ContentLoopReversed(acc, platforms, campaign_phases, target_audience) ==
    IF platforms = <<>> THEN acc
    ELSE ContentLoopReversed(Append(acc, ContentPrompt(platforms[Len(platforms)],
                                                       campaign_phases, target_audience)),
                             SubSeq(platforms, 1, Len(platforms) - 1),
                             campaign_phases, target_audience)

\* for platform in selected_platforms: prompts.append({...})
RECURSIVE ContentLoop(_, _, _, _)
ContentLoop(acc, platforms, campaign_phases, target_audience) ==
    IF platforms = <<>> THEN acc
    ELSE ContentLoop(Append(acc, ContentPrompt(Head(platforms), campaign_phases,
                                               target_audience)),
                     Tail(platforms), campaign_phases, target_audience)

\* Variant: only the per-platform prompts are returned.
generate_content_prompts_only(data) ==
    ContentLoop(<<>>, Get(data, "selected_platforms", DefaultSelectedPlatforms),
                Get(data, "campaign_phases", DefaultCampaignPhases),
                Get(data, "target_audience", "your target audience"))

generate_prompt_sequence(data) ==
    LET product_name == Get(data, "product_name", "Your Product")
        target_audience == Get(data, "target_audience", "your target audience")
        key_message == Get(data, "key_message", "your key message")
        selected_platforms == Get(data, "selected_platforms", DefaultSelectedPlatforms)
        campaign_phases == Get(data, "campaign_phases", DefaultCampaignPhases)
        p1 == <<FoundationPrompt(product_name, target_audience, key_message,
                                 selected_platforms)>>
        p2 == ContentLoop(p1, selected_platforms, campaign_phases, target_audience)
    IN  Append(p2, AssetPrompt(product_name))

----------------------------------------------------------------------------
(* The timeline of the "Generate Campaign Timeline" button *)

\* Variant: the week is the 0-based loop index.
TimelineRowZeroBased(i, phase, platform) ==
    [Week |-> "Week " \o ToString(i),
     Phase |-> phase,
     Platform |-> platform,
     Task |-> "Create " \o platform \o " content for " \o phase,
     Status |-> "Planned"]

TimelineRow(i, phase, platform) ==
    [Week |-> "Week " \o ToString(i + 1),
     Phase |-> phase,
     Platform |-> platform,
     Task |-> "Create " \o platform \o " content for " \o phase,
     Status |-> "Planned"]

\* for j, platform in enumerate(platforms): timeline_data.append({...})
RECURSIVE PlatformLoop(_, _, _, _)
PlatformLoop(acc, i, phase, platforms) ==
    IF platforms = <<>> THEN acc
    ELSE PlatformLoop(Append(acc, TimelineRow(i, phase, Head(platforms))),
                      i, phase, Tail(platforms))

\* for i, phase in enumerate(phases): the loop over the platforms
RECURSIVE PhaseLoop(_, _, _, _)
PhaseLoop(acc, i, phases, platforms) ==
    IF phases = <<>> THEN acc
    ELSE PhaseLoop(PlatformLoop(acc, i, Head(phases), platforms),
                   i + 1, Tail(phases), platforms)

generate_timeline(data) ==
    PhaseLoop(<<>>, 0, Get(data, "campaign_phases", <<>>),
              Get(data, "selected_platforms", <<>>))

----------------------------------------------------------------------------
(* Widgets *)

FoundationTextFields == {"product_name", "target_audience", "key_message"}

FoundationSelectFields == {"campaign_duration", "campaign_goal", "budget_tier"}

FoundationFields == FoundationTextFields \cup FoundationSelectFields

SelectOptions(field) ==
    CASE field = "campaign_duration" -> DurationOptions
      [] field = "campaign_goal" -> GoalOptions
      [] field = "budget_tier" -> BudgetOptions

\* The value every widget has when it is first called: an empty text, the
\* first option of a selectbox, an unticked checkbox, and default= of the
\* multiselect.
DefaultWidgets ==
    [product_name |-> "",
     target_audience |-> "",
     campaign_duration |-> DurationOptions[1],
     key_message |-> "",
     campaign_goal |-> GoalOptions[1],
     budget_tier |-> BudgetOptions[1],
     platform_boxes |-> {},
     selected_phases |-> CAMPAIGN_PHASES]

\* The step whose branch of main() calls the widget.
WidgetStep(w) ==
    CASE w \in FoundationFields -> Foundation
      [] w = "platform_boxes" -> PlatformSelection
      [] w = "selected_phases" -> ContentStrategy

\* The widget values after a run that rendered `step`: the widgets it called
\* keep their values, every other widget's state is discarded.
KeepWidgets(step, w) ==
    [f \in DOMAIN DefaultWidgets |->
        IF WidgetStep(f) = step THEN w[f] ELSE DefaultWidgets[f]]

\* The loop over builder.platforms that collects the ticked checkboxes.
CheckedPlatforms(w) == SelectSeq(PLATFORMS, LAMBDA p : p \in w.platform_boxes)

----------------------------------------------------------------------------
(* One run of main() *)

\* The session state a run works on.
Session == [current_step |-> current_step, campaign_data |-> campaign_data,
            prompts |-> prompts, widgets |-> widgets]

\* The keys of campaign_data the branch of `step` assigns.
StepKeys(step) ==
    CASE step = Foundation -> FoundationFields
      [] step = PlatformSelection -> {"selected_platforms"}
      [] step = ContentStrategy -> {"campaign_phases"}
      [] OTHER -> {}

\* Variant: the foundation page builds a new dict from its six widgets.
RenderDataFoundationRebuilds(step, data, w) ==
    CASE step = Foundation -> [k \in FoundationFields |-> w[k]]
      [] step = PlatformSelection -> Put(data, "selected_platforms", CheckedPlatforms(w))
      [] step = ContentStrategy -> Put(data, "campaign_phases", w.selected_phases)
      [] OTHER -> data

\* campaign_data after the branch of `step` has run.
RenderData(step, data, w) ==
    CASE step = Foundation ->
            [k \in (DOMAIN data) \cup FoundationFields |->
                IF k \in FoundationFields THEN w[k] ELSE data[k]]
      [] step = PlatformSelection -> Put(data, "selected_platforms", CheckedPlatforms(w))
      [] step = ContentStrategy -> Put(data, "campaign_phases", w.selected_phases)
      [] OTHER -> data

\* Variant: the prompt step generates on every run.
RenderPromptsAlways(step, data, p) ==
    IF step = PromptGeneration THEN generate_prompt_sequence(data) ELSE p

\* Variant: the prompt step generates from an empty dict.
RenderPromptsIgnoresData(step, data, p) ==
    IF step = PromptGeneration /\ p = <<>> THEN generate_prompt_sequence(EmptyDict) ELSE p

\* prompts after the branch of `step` has run.
RenderPrompts(step, data, p) ==
    IF step = PromptGeneration /\ p = <<>> THEN generate_prompt_sequence(data) ELSE p

\* The if/elif chain of main() on session S, up to the buttons of the step.
Render(S) ==
    [current_step |-> S.current_step,
     campaign_data |-> RenderData(S.current_step, S.campaign_data, S.widgets),
     prompts |-> RenderPrompts(S.current_step, S.campaign_data, S.prompts),
     widgets |-> KeepWidgets(S.current_step, S.widgets)]

\* The session state of the reset handlers; st.rerun() comes before any
\* input widget is called, so every widget state is discarded.
ResetSession ==
    [current_step |-> Foundation, campaign_data |-> EmptyDict, prompts |-> <<>>,
     widgets |-> DefaultWidgets]

\* Variant: the content strategy page continues straight to the final plan.
ContinueTargetSkip(step) ==
    CASE step = Foundation -> 1
      [] step = PlatformSelection -> 2
      [] step = ContentStrategy -> 4
      [] step = PromptGeneration -> 4

\* The targets of the "Continue" buttons of the steps.
ContinueTarget(step) ==
    CASE step = Foundation -> 1
      [] step = PlatformSelection -> 2
      [] step = ContentStrategy -> 3
      [] step = PromptGeneration -> 4

\* Variant: every "Back" button returns to the first step.
BackTargetFirst(step) == 0

\* Variant: the prompt page goes back to the platform selection.
BackTargetSkip(step) ==
    CASE step = PlatformSelection -> 0
      [] step = ContentStrategy -> 1
      [] step = PromptGeneration -> 1

\* The targets of the "Back" buttons of the steps.
BackTarget(step) ==
    CASE step = PlatformSelection -> 0
      [] step = ContentStrategy -> 1
      [] step = PromptGeneration -> 2

\* Variant: the sidebar buttons are numbered from 1.
SidebarTargetOneBased(i) == i + 1

\* The target of sidebar button step_i.
SidebarTarget(i) == i

Commit(S, ev, tl) ==
    /\ current_step' = S.current_step
    /\ campaign_data' = S.campaign_data
    /\ prompts' = S.prompts
    /\ widgets' = S.widgets
    /\ timeline_data' = tl
    /\ event' = ev

----------------------------------------------------------------------------
(* The state after the first run of main() in a fresh session *)

InitSession ==
    Render([current_step |-> 0, campaign_data |-> EmptyDict, prompts |-> <<>>,
            widgets |-> DefaultWidgets])

Init ==
    /\ current_step = InitSession.current_step
    /\ campaign_data = InitSession.campaign_data
    /\ prompts = InitSession.prompts
    /\ widgets = InitSession.widgets
    /\ timeline_data = <<>>
    /\ event = "start"
    /\ edits = 0

----------------------------------------------------------------------------
(* User interactions *)

\* A sidebar step button: sets current_step and the same run renders the step.
GoTo(i) ==
    /\ Commit(Render([Session EXCEPT !.current_step = SidebarTarget(i)]), "goto", <<>>)
    /\ UNCHANGED edits

\* "Reset Campaign" in the sidebar: clears the session and reruns.
ResetCampaign ==
    /\ Commit(Render(ResetSession), "reset", <<>>)
    /\ UNCHANGED edits

\* "Start New Campaign" on the final plan: clears the session and reruns.
StartNewCampaign ==
    /\ current_step = FinalPlan
    /\ Commit(Render(ResetSession), "new_campaign", <<>>)
    /\ UNCHANGED edits

\* The primary button of steps 0..3: the run renders the step, sets
\* current_step and reruns.
Continue ==
    /\ current_step \in 0..3
    /\ LET S1 == Render(Session)
       IN  Commit(Render([S1 EXCEPT !.current_step = ContinueTarget(S1.current_step)]),
                  "continue", <<>>)
    /\ UNCHANGED edits

\* The "Back" button of steps 1..3.
Back ==
    /\ current_step \in 1..3
    /\ LET S1 == Render(Session)
       IN  Commit(Render([S1 EXCEPT !.current_step = BackTarget(S1.current_step)]),
                  "back", <<>>)
    /\ UNCHANGED edits

\* The user changes a text or a selectbox of the foundation form.
EditFoundation ==
    /\ current_step = Foundation
    /\ edits < MaxEdits
    /\ \E f \in FoundationFields :
         \E v \in (IF f \in FoundationTextFields THEN Texts ELSE Picked(SelectOptions(f))) :
            /\ v # widgets[f]
            /\ Commit(Render([Session EXCEPT !.widgets[f] = v]), "edit", <<>>)
    /\ edits' = edits + 1

\* The user ticks or unticks a platform checkbox.
TogglePlatform ==
    /\ current_step = PlatformSelection
    /\ edits < MaxEdits
    /\ \E p \in Range(PLATFORMS) :
         LET boxes == IF p \in widgets.platform_boxes
                      THEN widgets.platform_boxes \ {p}
                      ELSE widgets.platform_boxes \cup {p}
         IN  Commit(Render([Session EXCEPT !.widgets.platform_boxes = boxes]), "edit", <<>>)
    /\ edits' = edits + 1

\* The user removes a phase from the multiselect, or adds one at its end.
EditPhases ==
    /\ current_step = ContentStrategy
    /\ edits < MaxEdits
    /\ \E sel \in {RemoveAt(widgets.selected_phases, i) : i \in DOMAIN widgets.selected_phases}
                 \cup {Append(widgets.selected_phases, ph) :
                          ph \in Range(CAMPAIGN_PHASES) \ Range(widgets.selected_phases)} :
         Commit(Render([Session EXCEPT !.widgets.selected_phases = sel]), "edit", <<>>)
    /\ edits' = edits + 1

\* Variant: the handler stores the lists it reads (setdefault for get).
GenerateTimelineSetsDefaults ==
    /\ current_step = PromptGeneration
    /\ LET S1 == Render(Session)
           data == Put(Put(S1.campaign_data, "campaign_phases",
                           Get(S1.campaign_data, "campaign_phases", <<>>)),
                       "selected_platforms",
                       Get(S1.campaign_data, "selected_platforms", <<>>))
       IN  Commit([S1 EXCEPT !.campaign_data = data], "timeline", generate_timeline(data))
    /\ UNCHANGED edits

\* "Generate Campaign Timeline" on the prompt step.
GenerateTimeline ==
    /\ current_step = PromptGeneration
    /\ LET S1 == Render(Session)
       IN  Commit(S1, "timeline", generate_timeline(S1.campaign_data))
    /\ UNCHANGED edits

\* "Export Campaign Plan" on the final plan: builds the export, stores nothing.
ExportPlan ==
    /\ current_step = FinalPlan
    /\ Commit(Render(Session), "export", <<>>)
    /\ UNCHANGED edits

Next ==
    \/ \E i \in 0..(Len(STEPS) - 1) : GoTo(i)
    \/ ResetCampaign
    \/ StartNewCampaign
    \/ Continue
    \/ Back
    \/ EditFoundation
    \/ TogglePlatform
    \/ EditPhases
    \/ GenerateTimeline
    \/ ExportPlan

Spec == Init /\ [][Next]_vars

----------------------------------------------------------------------------
(* The two generators on their own: generate_prompt_sequence and the        *)
(* timeline loops applied to campaign data drawn from bounded sets, whether *)
(* or not the pages of the wizard can produce it.                           *)

\* The lists without repetition of at most n elements of S.
RECURSIVE ListsOver(_, _)
ListsOver(S, n) ==
    IF n = 0 THEN {<<>>}
    ELSE LET shorter == ListsOver(S, n - 1)
         IN  shorter \cup UNION {{Append(l, x) : x \in S \ Range(l)} : l \in shorter}

FnTexts == {"", "EcoVibe"}

\* The keys generate_prompt_sequence and the timeline loops read.
GeneratorKeys == {"product_name", "target_audience", "key_message",
                  "selected_platforms", "campaign_phases"}

\* Dicts in which every key the generators read is absent or set.
FnInputs ==
    LET Dict(present, pn, ta, km, sp, cp) ==
            [k \in present |->
                CASE k = "product_name" -> pn
                  [] k = "target_audience" -> ta
                  [] k = "key_message" -> km
                  [] k = "selected_platforms" -> sp
                  [] k = "campaign_phases" -> cp]
    IN  {Dict(present, pn, ta, km, sp, cp) :
            present \in SUBSET GeneratorKeys,
            pn \in FnTexts, ta \in FnTexts, km \in FnTexts,
            sp \in ListsOver(SamplePlatforms, MaxLen),
            cp \in ListsOver(Range(CAMPAIGN_PHASES), MaxLen)}

InitFn ==
    /\ campaign_data \in FnInputs
    /\ current_step = PromptGeneration
    /\ prompts = <<>>
    /\ widgets = DefaultWidgets
    /\ timeline_data = <<>>
    /\ event = "fn_input"
    /\ edits = 0

\* builder.generate_prompt_sequence(campaign_data)
FnGeneratePrompts ==
    /\ event = "fn_input"
    /\ prompts' = generate_prompt_sequence(campaign_data)
    /\ event' = "fn_prompts"
    /\ UNCHANGED <<current_step, campaign_data, widgets, timeline_data, edits>>

\* The timeline loops on campaign_data
FnGenerateTimeline ==
    /\ event = "fn_prompts"
    /\ timeline_data' = generate_timeline(campaign_data)
    /\ event' = "fn_timeline"
    /\ UNCHANGED <<current_step, campaign_data, prompts, widgets, edits>>

NextFn ==
    \/ FnGeneratePrompts
    \/ FnGenerateTimeline

SpecFn == InitFn /\ [][NextFn]_vars

----------------------------------------------------------------------------
(* Properties *)

ResetEvents == {"reset", "new_campaign"}

\* C1: in every reachable state current_step is one of the five steps 0..4.
C1_StepInRange ==
    current_step \in {Foundation, PlatformSelection, ContentStrategy,
                      PromptGeneration, FinalPlan}

\* The final plan reached by a sidebar jump after the forms were edited.
C1_Witness == current_step = FinalPlan /\ event = "goto" /\ edits = MaxEdits

\* C2: every continue action from step s leaves current_step = min(s + 1,
\* FinalPlan), and none is taken from the final plan, which has no continue
\* button: there current_step stays FinalPlan and nothing fails.
C2_Advance ==
    [][event' = "continue" =>
          /\ current_step' = Min(current_step + 1, FinalPlan)
          /\ current_step # FinalPlan]_vars

\* A continue action has just reached the final plan.
C2_Witness == event = "continue" /\ current_step = FinalPlan

\* C3, as stated: from every step retreat leads to max(s - 1, Foundation):
\* either current_step is that step already (the no-op at Foundation) or a
\* back action leading there can be taken.
C3_RetreatFromEveryStep ==
    \/ current_step = Max(current_step - 1, Foundation)
    \/ ENABLED (Back /\ current_step' = Max(current_step - 1, Foundation))

\* C3, amended: every back action is taken from PlatformSelection,
\* ContentStrategy or PromptGeneration and leaves current_step = s - 1; none
\* is taken from Foundation or from FinalPlan, which have no back button.
C3_Retreat ==
    [][event' = "back" =>
          /\ current_step \in {PlatformSelection, ContentStrategy, PromptGeneration}
          /\ current_step' = current_step - 1]_vars

\* A back action has just led from the prompt step to the content strategy.
C3_Witness == event = "back" /\ current_step = ContentStrategy /\ prompts # <<>>

\* C4: after a reset current_step is Foundation and campaign_data (no key)
\* and prompts are both empty.
C4_ResetEmpties ==
    event \in ResetEvents =>
        /\ current_step = Foundation
        /\ DOMAIN campaign_data = {}
        /\ prompts = <<>>

\* C5: prompts changes only by a reset (to empty) or, when empty, by the
\* prompt step generating it from the campaign data; non-empty prompts are
\* kept by every action but a reset, whatever the campaign data has become.
C5_GenerateOnce ==
    [][prompts' # prompts =>
          \/ event' \in ResetEvents /\ prompts' = <<>>
          \/ /\ prompts = <<>>
             /\ current_step' = PromptGeneration
             /\ prompts' = generate_prompt_sequence(campaign_data')]_vars

\* The prompt step entered again with prompts that are not what the campaign
\* data would generate now.
C5_Witness ==
    /\ current_step = PromptGeneration
    /\ event \in {"continue", "goto"}
    /\ prompts # <<>>
    /\ prompts # generate_prompt_sequence(campaign_data)

\* C6: for campaign data whose selected_platforms has length k,
\* generate_prompt_sequence returns k + 2 records, the first with phase
\* "Foundation" and platform "All", the last with phase "Asset Development"
\* and platform "All".
C6_PromptCount ==
    (event \in {"fn_prompts", "fn_timeline"} /\ "selected_platforms" \in DOMAIN campaign_data) =>
        LET k == Len(campaign_data["selected_platforms"])
        IN  /\ Len(prompts) = k + 2
            /\ prompts[1].phase = "Foundation"
            /\ prompts[1].platform = "All"
            /\ prompts[k + 2].phase = "Asset Development"
            /\ prompts[k + 2].platform = "All"

\* The generator applied to campaign data with an empty selected_platforms.
C6_Witness ==
    /\ event = "fn_prompts"
    /\ "selected_platforms" \in DOMAIN campaign_data
    /\ campaign_data["selected_platforms"] = <<>>
    /\ Len(prompts) = 2

\* C7, as stated: with no field set generate_prompt_sequence returns 3 records.
C7_ThreeRecords ==
    (event = "fn_prompts" /\ DOMAIN campaign_data = {}) => Len(prompts) = 3

\* C7, amended: with no field set generate_prompt_sequence returns 4
\* records, built from the defaults: the foundation prompt for "Your
\* Product", "your target audience", "your key message" and platforms
\* Instagram, TikTok; a content prompt for Instagram and one for TikTok, both
\* for the Awareness phase; the asset prompt for "Your Product".
C7_Defaults ==
    (event = "fn_prompts" /\ DOMAIN campaign_data = {}) =>
        /\ Len(prompts) = 4
        /\ prompts[1] =
              [phase |-> "Foundation", platform |-> "All",
               prompt |-> "Act as a senior marketing strategist. Create a multi-platform campaign for:\n            \nProduct: Your Product\nTarget Audience: your target audience\nKey Message: your key message\nPlatforms: Instagram, TikTok\n\nPropose a weekly strategy with specific goals for each platform."]
        /\ prompts[2] =
              [phase |-> "Content Creation", platform |-> "Instagram",
               prompt |-> "For Instagram, generate 3-5 content ideas for the Awareness phase targeting your target audience. Focus on:\n- Platform-best practices for Instagram\n- Content format recommendations\n- Hashtag strategy\n- Engagement tactics"]
        /\ prompts[3] =
              [phase |-> "Content Creation", platform |-> "TikTok",
               prompt |-> "For TikTok, generate 3-5 content ideas for the Awareness phase targeting your target audience. Focus on:\n- Platform-best practices for TikTok\n- Content format recommendations\n- Hashtag strategy\n- Engagement tactics"]
        /\ prompts[4] =
              [phase |-> "Asset Development", platform |-> "All",
               prompt |-> "Create specific copy and content guidelines for:\nProduct: Your Product\n\nInclude:\n- 5 email subject lines\n- 3 Instagram carousel concepts\n- 2 TikTok script outlines\n- Social media post templates"]

\* The generator applied to the empty dict.
C7_Witness == event = "fn_prompts" /\ DOMAIN campaign_data = {} /\ Len(prompts) = 4

\* C8: the timeline over phases P and platforms Q (an absent key counting as
\* empty) has |P| * |Q| rows, and the row at 0-based index i * |Q| + j has
\* week "Week (i+1)", phase P[i], platform Q[j], task "Create Q[j] content
\* for P[i]" and status "Planned"; it is empty when P or Q is.
C8_Timeline ==
    event = "fn_timeline" =>
        LET P == Get(campaign_data, "campaign_phases", <<>>)
            Q == Get(campaign_data, "selected_platforms", <<>>)
        IN  /\ Len(timeline_data) = Len(P) * Len(Q)
            /\ \A i \in 0..(Len(P) - 1) : \A j \in 0..(Len(Q) - 1) :
                  timeline_data[i * Len(Q) + j + 1] =
                      [Week |-> "Week " \o ToString(i + 1),
                       Phase |-> P[i + 1],
                       Platform |-> Q[j + 1],
                       Task |-> "Create " \o Q[j + 1] \o " content for " \o P[i + 1],
                       Status |-> "Planned"]

\* The timeline of phases Awareness, Conversion and platforms Instagram, Email.
C8_Witness ==
    /\ event = "fn_timeline"
    /\ DOMAIN campaign_data = GeneratorKeys
    /\ campaign_data["campaign_phases"] = <<"Awareness", "Conversion">>
    /\ campaign_data["selected_platforms"] = <<"Instagram", "Email">>
    /\ Len(timeline_data) = 4
    /\ timeline_data[3].Week = "Week 2"
    /\ timeline_data[3].Platform = "Instagram"

\* C10, as stated: a continue action keeps every key and value campaign_data
\* held before it, and keeps prompts unless it enters the prompt step with
\* prompts empty.
C10_AdvanceKeepsData ==
    [][event' = "continue" =>
          /\ \A k \in DOMAIN campaign_data :
                k \in DOMAIN campaign_data' /\ campaign_data'[k] = campaign_data[k]
          /\ \/ prompts' = prompts
             \/ prompts = <<>> /\ current_step' = PromptGeneration]_vars

\* C11: every sidebar jump is enabled in every state, and a jump or an edit
\* that shows step t keeps every key of campaign_data that the page of t
\* does not bind (on Foundation: selected_platforms and campaign_phases; on
\* PlatformSelection: campaign_phases) and keeps prompts, except that
\* entering the prompt step with prompts empty fills prompts.
C11_GoToKeepsOtherSteps ==
    /\ [](\A i \in 0..(Len(STEPS) - 1) : ENABLED GoTo(i))
    /\ [][event' \in {"goto", "edit"} =>
             /\ \A k \in (DOMAIN campaign_data) \ StepKeys(current_step') :
                   k \in DOMAIN campaign_data' /\ campaign_data'[k] = campaign_data[k]
             /\ \/ prompts' = prompts
                \/ prompts = <<>> /\ current_step' = PromptGeneration]_vars

\* The foundation form edited on a later visit, with the phases chosen on the
\* content strategy page still in campaign_data.
C11_Witness ==
    /\ event = "edit"
    /\ current_step = Foundation
    /\ campaign_data["product_name"] = "EcoVibe"
    /\ "campaign_phases" \in DOMAIN campaign_data
    /\ campaign_data["campaign_phases"] # CAMPAIGN_PHASES

\* The events that show another step than the one shown before.
EnterEvents == {"goto", "continue", "back"}

\* C12, as stated: entering Foundation, PlatformSelection, ContentStrategy
\* or FinalPlan leaves campaign_data and prompts as they were; entering
\* PromptGeneration leaves campaign_data as it was and changes prompts only
\* when it was empty.
C12_EntryHasNoSideEffect ==
    [][(event' \in EnterEvents /\ current_step' # current_step) =>
          /\ campaign_data' = campaign_data
          /\ \/ prompts' = prompts
             \/ prompts = <<>> /\ current_step' = PromptGeneration]_vars

\* C14: the records between the first and the last are one per entry of
\* selected_platforms (the default list when the key is absent), in the same
\* order: record j + 1 (0-based) has phase "Content Creation" and platform
\* selected_platforms[j].
C14_ContentRecords ==
    event \in {"fn_prompts", "fn_timeline"} =>
        LET sp == IF "selected_platforms" \in DOMAIN campaign_data
                  THEN campaign_data["selected_platforms"]
                  ELSE <<"Instagram", "TikTok">>
        IN  /\ Len(prompts) = Len(sp) + 2
            /\ \A j \in 0..(Len(sp) - 1) :
                  /\ prompts[j + 2].phase = "Content Creation"
                  /\ prompts[j + 2].platform = sp[j + 1]

\* The generator applied to platforms listed in another order than the catalog.
C14_Witness ==
    /\ event = "fn_prompts"
    /\ "selected_platforms" \in DOMAIN campaign_data
    /\ campaign_data["selected_platforms"] = <<"Email", "Instagram">>
    /\ prompts[2].platform = "Email"
    /\ prompts[3].platform = "Instagram"

\* C15: every content-creation prompt names the first entry of
\* campaign_phases, or "Awareness" when the list is empty or the key absent,
\* and the entries after the first do not influence the output: it is the
\* output for the list cut to its first entry.
C15_FirstPhaseOnly ==
    event \in {"fn_prompts", "fn_timeline"} =>
        LET present == "campaign_phases" \in DOMAIN campaign_data
            named == IF present /\ campaign_data["campaign_phases"] # <<>>
                     THEN campaign_data["campaign_phases"][1]
                     ELSE "Awareness"
            audience == IF "target_audience" \in DOMAIN campaign_data
                        THEN campaign_data["target_audience"]
                        ELSE "your target audience"
        IN  /\ \A r \in 2..(Len(prompts) - 1) :
                  prompts[r].prompt =
                      "For " \o prompts[r].platform
                      \o ", generate 3-5 content ideas for the " \o named
                      \o " phase targeting " \o audience
                      \o ". Focus on:\n- Platform-best practices for " \o prompts[r].platform
                      \o "\n- Content format recommendations\n- Hashtag strategy\n- Engagement tactics"
            /\ (present /\ Len(campaign_data["campaign_phases"]) > 1) =>
                  prompts = generate_prompt_sequence(
                                Put(campaign_data, "campaign_phases", <<named>>))

\* The generator applied to two phases, Awareness not the first, and at
\* least one platform.
C15_Witness ==
    /\ event = "fn_prompts"
    /\ "campaign_phases" \in DOMAIN campaign_data
    /\ campaign_data["campaign_phases"] = <<"Conversion", "Awareness">>
    /\ Len(prompts) > 2

\* C16: every change of current_step is a continue from s to s + 1, a back
\* from s to s - 1, a reset to Foundation or a sidebar jump; no continue and
\* no back skips a step.
C16_Edges ==
    [][/\ current_step' # current_step =>
             \/ event' = "continue" /\ current_step' = current_step + 1
             \/ event' = "back" /\ current_step' = current_step - 1
             \/ event' \in ResetEvents /\ current_step' = Foundation
             \/ event' = "goto"
       /\ event' = "continue" => current_step' = current_step + 1
       /\ event' = "back" => current_step' = current_step - 1]_vars

\* The final plan reached by continue, with no edit and with every page on
\* the way rendered: the walk Foundation, PlatformSelection, ContentStrategy,
\* PromptGeneration, FinalPlan.
C16_Witness ==
    /\ event = "continue"
    /\ current_step = FinalPlan
    /\ edits = 0
    /\ DOMAIN campaign_data = FoundationFields \cup {"selected_platforms", "campaign_phases"}
    /\ Len(prompts) = 2

\* C17: on the prompt step the timeline can always be generated, and
\* generating it leaves current_step, campaign_data and prompts as they
\* were and shows one row per phase and platform of the campaign_data of
\* that moment.
C17_TimelineReadOnly ==
    /\ [](current_step = PromptGeneration => ENABLED GenerateTimeline)
    /\ [][event' = "timeline" =>
             /\ current_step = PromptGeneration
             /\ current_step' = current_step
             /\ campaign_data' = campaign_data
             /\ prompts' = prompts
             /\ Len(timeline_data') =
                   Len(Get(campaign_data, "campaign_phases", <<>>))
                   * Len(Get(campaign_data, "selected_platforms", <<>>))]_vars

\* A timeline of four rows shown while the cached prompts are kept.
C17_Witness ==
    /\ event = "timeline"
    /\ Len(timeline_data) = 4
    /\ timeline_data[4].Week = "Week 4"
    /\ prompts # <<>>

\* C18: on the prompt step prompts holds at least two records, and prompts
\* that are not empty become empty only by a reset; so prompts is empty
\* only while the prompt step has not been shown since the session started
\* or was reset.
C18_EmptyMeansNotGenerated ==
    /\ [](current_step = PromptGeneration => Len(prompts) >= 2)
    /\ [][(prompts # <<>> /\ prompts' = <<>>) => event' \in ResetEvents]_vars

\* The prompt step shown for a campaign with no platform ticked.
C18_Witness ==
    /\ current_step = PromptGeneration
    /\ "selected_platforms" \in DOMAIN campaign_data
    /\ campaign_data["selected_platforms"] = <<>>
    /\ Len(prompts) = 2

\* C19, as stated: whenever prompts is not empty it is what
\* generate_prompt_sequence returns for the current campaign_data.
C19_PromptsFollowData ==
    prompts # <<>> => prompts = generate_prompt_sequence(campaign_data)

\* C19, amended: prompts is what generate_prompt_sequence returns for the
\* campaign_data of the moment it is generated, and it stays so across every
\* action that leaves campaign_data as it was; an action that changes
\* campaign_data leaves the cached prompts behind.
C19_PromptsFollowDataUntilChanged ==
    [][(/\ prompts' # <<>>
        /\ campaign_data' = campaign_data
        /\ prompts = <<>> \/ prompts = generate_prompt_sequence(campaign_data))
          => prompts' = generate_prompt_sequence(campaign_data')]_vars

\* The final plan exported with prompts that match the edited campaign_data.
C19_Witness ==
    /\ event = "export"
    /\ edits = MaxEdits
    /\ prompts # <<>>
    /\ prompts = generate_prompt_sequence(campaign_data)

=============================================================================
